---- MODULE Spec2Model ----
(***************************************************************************)
(* GoLive: the credential broker (token controllers and the standalone    *)
(* token servers) and the client's credential fetch with bounded retry.   *)
(*                                                                         *)
(* Request parameters are JavaScript values: a parameter is either absent *)
(* (undefined) or a string.  Capability parameters (isPublisher, role)    *)
(* are kept as sequences of one-character strings so that toLowerCase is  *)
(* computed character by character.                                        *)
(***************************************************************************)
EXTENDS Naturals, Integers, Sequences, FiniteSets, TLC

(* ------------------------------------------------------------------ *)
(* Bounds                                                              *)
(* ------------------------------------------------------------------ *)

\* number of requests the broker handles in one run
MaxRequests == 3

\* number of joinRoom calls the user starts in one run
MaxJoins == 2

\* number of joinRoom calls in the runs that follow the whole life of the
\* App component, from mount to unmount
MaxBootJoins == 1

\* number of participant-set changes the transport delivers to one RoomView
MaxChanges == 4

\* number of fetchActiveLives calls of one BrowseLivesScreen
MaxQueries == 3

\* number of intercepted console calls: enough to overflow the log buffer
MaxLogs == 102

(* ------------------------------------------------------------------ *)
(* JavaScript values                                                   *)
(* ------------------------------------------------------------------ *)

Absent == [present |-> FALSE, s |-> ""]

Str(x) == [present |-> TRUE, s |-> x]

AbsentChars == [present |-> FALSE, s |-> << >>]

Chars(cs) == [present |-> TRUE, s |-> cs]

\* !v for a value that is undefined or a string
Falsy(v) == ~v.present \/ v.s = ""

\* String(v): a string is itself, undefined becomes "undefined"
JsString(v) == IF v.present THEN v.s ELSE "undefined"

JsStringChars(v) ==
    IF v.present THEN v.s ELSE <<"u", "n", "d", "e", "f", "i", "n", "e", "d">>

UpperToLower ==
    [c \in {"P", "U", "B", "L", "I", "S", "H", "E", "R", "T"} |->
        CASE c = "P" -> "p" [] c = "U" -> "u" [] c = "B" -> "b"
          [] c = "L" -> "l" [] c = "I" -> "i" [] c = "S" -> "s"
          [] c = "H" -> "h" [] c = "E" -> "e" [] c = "R" -> "r"
          [] c = "T" -> "t"]

LowerChar(c) == IF c \in DOMAIN UpperToLower THEN UpperToLower[c] ELSE c

\* String.prototype.toLowerCase
ToLowerCase(cs) == [k \in 1..Len(cs) |-> LowerChar(cs[k])]

(* ------------------------------------------------------------------ *)
(* Request inputs                                                      *)
(* ------------------------------------------------------------------ *)

Identities == {"u1", "u2"}

RoomNames == {"r1"}

RoomParams == {Absent, Str("")} \cup {Str(r) : r \in RoomNames}

IdentityParams == {Absent, Str("")} \cup {Str(i) : i \in Identities}

publisherChars == <<"p", "u", "b", "l", "i", "s", "h", "e", "r">>

trueChars == <<"t", "r", "u", "e">>

PublisherSpellings ==
    { publisherChars,
      <<"P", "u", "b", "l", "i", "s", "h", "e", "r">>,
      <<"P", "U", "B", "L", "I", "S", "H", "E", "R">> }

RoleParams ==
    {AbsentChars, Chars(<<"v", "i", "e", "w", "e", "r">>), Chars(trueChars)}
        \cup {Chars(cs) : cs \in PublisherSpellings}

IsPublisherParams ==
    {AbsentChars, Chars(trueChars), Chars(<<"T", "R", "U", "E">>),
     Chars(<<"f", "a", "l", "s", "e">>), Chars(publisherChars)}

\* req.query of GET /getToken
Queries ==
    [roomName : RoomParams, identity : IdentityParams, isPublisher : IsPublisherParams]

\* req.body of POST /api/livekit/token; hasBody = FALSE is a request without a body
Bodies ==
    [hasBody : {TRUE}, userId : IdentityParams, roomName : RoomParams, role : RoleParams]
        \cup {[hasBody |-> FALSE, userId |-> Absent, roomName |-> Absent,
               role |-> AbsentChars]}

(* ------------------------------------------------------------------ *)
(* Credentials                                                         *)
(* ------------------------------------------------------------------ *)

NoToken == [identity |-> "", room |-> "", canPublish |-> "none", ttl |-> ""]

\* Grant Encoder: subject = identity, join of exactly roomName, publish
\* permission iff isPublisher, time-to-live 10 minutes
generateToken(roomName, identity, isPublisher) ==
    [identity |-> identity, room |-> roomName,
     canPublish |-> IF isPublisher THEN "true" ELSE "false", ttl |-> "10m"]

\* createToken of the standalone token server: the grant is
\* {roomJoin: true, room}, nothing is said about publishing
createToken(roomName, participantName) ==
    [identity |-> participantName, room |-> roomName,
     canPublish |-> "unset", ttl |-> "10m"]

\* The transport's publish check: a grant that does not set canPublish
\* permits publishing; only an explicit canPublish = false forbids it
SatisfiesPublishCheck(cred) == cred.canPublish \in {"true", "unset"}

(* ------------------------------------------------------------------ *)
(* State                                                               *)
(* ------------------------------------------------------------------ *)

VARIABLES
    identities,   \* the controllers' registry: const identities = new Set<string>()
    lastExchange, \* the request handled last and the response it was given
    issued,       \* per identity: credentials the controllers answered with
    validReqs,    \* per identity: controller requests carrying it with a room name
    conflicts,    \* per identity: controller requests answered 409
    via,          \* per identity: the controllers those requests came through
    handled,      \* requests handled so far
    token,        \* App state: const [token, setToken] = useState(null)
    error,        \* App state: const [error, setError] = useState(null)
    currentScreen,\* App state: "browse" | "roleSelection" | "room"
    role,         \* App state: "host" | "viewer" | "null"
    calls,        \* the joinRoom calls: where each is in fetchTokenWithRetry
    njoins,       \* joinRoom calls started so far
    mounted,      \* the App component is mounted (its cleanup has not run)
    audio,        \* init(): await AudioSession.startAudioSession() is
                  \* "pending", "started" (resolved) or "failed" (rejected)
    nativeQueue,  \* AudioSession calls issued and not yet carried out
    sessionHeld,  \* the device's audio session is held
    teardownIn,   \* what init() was at when the component unmounted
    logInstalled, \* LogManager.getInstance() has run: console is intercepted
    viewRole,     \* RoomView's role prop; "none" while no RoomView is mounted
    participants, \* useParticipants(): the live set as the transport delivers it
    previousParticipantCount,
    hostIdentified,
    hostParticipant, \* sid of the resolved host, "null" while there is none
    effectPending,   \* a dependency of the RoomView effect changed since it ran
    joinNotices,     \* onViewerJoined calls so far
    lastNotice,      \* sid named by the last onViewerJoined call
    nchanges,        \* participant-set changes delivered so far
    seenRemotes,     \* remote participants in the array the effect last ran on
    tracks,          \* useTracks(): sids of the participants with a camera track
    rooms,           \* the rooms of the LiveKit Room Service, in its order
    lives,           \* BrowseLivesScreen's lives state
    loading,         \* BrowseLivesScreen's loading state
    query,           \* the fetchActiveLives call in flight and its response
    listedFrom,      \* what listRooms() returned for the last 200 response
    livesReturn,     \* how the last fetchActiveLives call ended
    livesWarnings,   \* console.warn calls of fetchActiveLives so far
    nqueries,        \* fetchActiveLives calls so far
    logs,            \* LogManager's logs
    listeners,       \* LogManager's listeners
    subscribed,      \* the LogDisplay instances mounted now
    received,        \* per LogDisplay, the array its callback was last given
    nlogs            \* addLog calls so far

brokerVars == <<identities, lastExchange, issued, validReqs, conflicts, via, handled>>

audioVars == <<mounted, audio, nativeQueue, sessionHeld, teardownIn>>

appVars == <<token, error, currentScreen, role, calls, njoins,
             mounted, audio, nativeQueue, sessionHeld, teardownIn, logInstalled>>

roomVars == <<viewRole, participants, previousParticipantCount, hostIdentified,
              hostParticipant, effectPending, joinNotices, lastNotice, nchanges,
              seenRemotes, tracks>>

directoryVars == <<rooms, lives, loading, query, listedFrom, livesReturn,
                   livesWarnings, nqueries>>

logVars == <<logs, listeners, subscribed, received, nlogs>>

clientVars == <<appVars, roomVars, directoryVars, logVars>>

vars == <<identities, lastExchange, issued, validReqs, conflicts, via, handled,
          token, error, currentScreen, role, calls, njoins,
          mounted, audio, nativeQueue, sessionHeld, teardownIn, logInstalled,
          viewRole, participants, previousParticipantCount, hostIdentified,
          hostParticipant, effectPending, joinNotices, lastNotice, nchanges,
          seenRemotes, tracks,
          rooms, lives, loading, query, listedFrom, livesReturn, livesWarnings,
          nqueries, logs, listeners, subscribed, received, nlogs>>

NoExchange ==
    [endpoint |-> "none", roomName |-> Absent, identity |-> Absent,
     cap |-> AbsentChars, clientRole |-> "none", status |-> 0, shape |-> "none",
     token |-> NoToken, regBefore |-> {}]

(* ------------------------------------------------------------------ *)
(* Token controllers: getToken and postLivekitToken                    *)
(* ------------------------------------------------------------------ *)

\* isPublisher === 'true'
QueryIsPublisher(v) == v.present /\ v.s = trueChars

PostIsPublisher_CaseSensitive(v) == JsStringChars(v) = publisherChars

\* String(role).toLowerCase() === 'publisher'
PostIsPublisher(v) == ToLowerCase(JsStringChars(v)) = publisherChars

BadRequest(reg) ==
    [status |-> 400, shape |-> "json_error", token |-> NoToken, reg |-> reg]

Conflict(reg) ==
    [status |-> 409, shape |-> "json_error", token |-> NoToken, reg |-> reg]

\* next(err): the framework's error handler answers with a server error
ServerError(reg) ==
    [status |-> 500, shape |-> "error", token |-> NoToken, reg |-> reg]

\* res.json({ token })
JsonToken(tok, reg) ==
    [status |-> 200, shape |-> "json_token", token |-> tok, reg |-> reg]

\* res.send(token)
BareToken(tok, reg) ==
    [status |-> 200, shape |-> "text", token |-> tok, reg |-> reg]

getTokenResult_NoCheck(reg, q, encodeThrows) ==
    IF Falsy(q.roomName) \/ Falsy(q.identity) THEN BadRequest(reg)
    ELSE LET reserved == reg \cup {q.identity.s} IN
         IF encodeThrows THEN ServerError(reserved)
         ELSE JsonToken(generateToken(q.roomName.s, q.identity.s,
                                      QueryIsPublisher(q.isPublisher)), reserved)

\* getToken(req, res, next) run on registry reg; encodeThrows: generateToken throws
getTokenResult(reg, q, encodeThrows) ==
    IF Falsy(q.roomName) \/ Falsy(q.identity) THEN BadRequest(reg)
    ELSE IF q.identity.s \in reg THEN Conflict(reg)
    ELSE LET reserved == reg \cup {q.identity.s} IN
         IF encodeThrows THEN ServerError(reserved)
         ELSE JsonToken(generateToken(q.roomName.s, q.identity.s,
                                      QueryIsPublisher(q.isPublisher)), reserved)

postLivekitTokenResult_ConflictFirst(reg, b, encodeThrows) ==
    LET identity == JsString(b.userId) IN
    IF identity \in reg THEN Conflict(reg)
    ELSE IF Falsy(b.roomName) \/ Falsy(b.userId) THEN BadRequest(reg)
    ELSE LET reserved == reg \cup {identity} IN
         IF encodeThrows THEN ServerError(reserved)
         ELSE JsonToken(generateToken(JsString(b.roomName), identity,
                                      PostIsPublisher(b.role)), reserved)

postLivekitTokenResult_NoReserve(reg, b, encodeThrows) ==
    IF Falsy(b.roomName) \/ Falsy(b.userId) THEN BadRequest(reg)
    ELSE LET identity == JsString(b.userId) IN
         IF identity \in reg THEN Conflict(reg)
         ELSE IF encodeThrows THEN ServerError(reg)
         ELSE JsonToken(generateToken(JsString(b.roomName), identity,
                                      PostIsPublisher(b.role)), reg)

\* postLivekitToken(req, res, next) run on registry reg
postLivekitTokenResult(reg, b, encodeThrows) ==
    IF Falsy(b.roomName) \/ Falsy(b.userId) THEN BadRequest(reg)
    ELSE LET identity == JsString(b.userId) IN
         IF identity \in reg THEN Conflict(reg)
         ELSE LET reserved == reg \cup {identity} IN
              IF encodeThrows THEN ServerError(reserved)
              ELSE JsonToken(generateToken(JsString(b.roomName), identity,
                                           PostIsPublisher(b.role)), reserved)

Bump(f, i) == [f EXCEPT ![i] = @ + 1]

\* the bookkeeping of one controller exchange: what was asked (from the
\* request alone) and what was answered
Record(endpoint, roomName, identity, cap, r) ==
    /\ lastExchange' =
           [endpoint |-> endpoint, roomName |-> roomName, identity |-> identity,
            cap |-> cap, clientRole |-> "none", status |-> r.status,
            shape |-> r.shape, token |-> r.token, regBefore |-> identities]
    /\ handled' = handled + 1
    /\ IF ~Falsy(roomName) /\ ~Falsy(identity)
       THEN /\ validReqs' = Bump(validReqs, identity.s)
            /\ via' = [via EXCEPT ![identity.s] = @ \cup {endpoint}]
            /\ issued' = IF r.status = 200 THEN Bump(issued, identity.s) ELSE issued
            /\ conflicts' = IF r.status = 409 THEN Bump(conflicts, identity.s)
                            ELSE conflicts
       ELSE UNCHANGED <<validReqs, via, issued, conflicts>>

Handle(endpoint, roomName, identity, cap, r) ==
    /\ handled < MaxRequests
    /\ identities' = r.reg
    /\ Record(endpoint, roomName, identity, cap, r)
    /\ UNCHANGED clientVars

getToken ==
    \E q \in Queries :
        Handle("getToken", q.roomName, q.identity, q.isPublisher,
               getTokenResult(identities, q, FALSE))

postLivekitToken ==
    \E b \in Bodies :
        Handle("postLivekitToken", b.roomName, b.userId, b.role,
               postLivekitTokenResult(identities, b, FALSE))

\* the same handlers when generateToken throws
getTokenEncodeThrows ==
    \E q \in Queries :
        /\ getTokenResult(identities, q, TRUE).status = 500
        /\ Handle("getToken", q.roomName, q.identity, q.isPublisher,
                  getTokenResult(identities, q, TRUE))

postLivekitTokenEncodeThrows ==
    \E b \in Bodies :
        /\ postLivekitTokenResult(identities, b, TRUE).status = 500
        /\ Handle("postLivekitToken", b.roomName, b.userId, b.role,
                  postLivekitTokenResult(identities, b, TRUE))

(* ------------------------------------------------------------------ *)
(* Standalone token servers                                            *)
(* ------------------------------------------------------------------ *)

\* Math.floor(Math.random() * 10000)
RandomNumbers == {1, 2}

RandomUser(n) == CASE n = 1 -> "user-1" [] n = 2 -> "user-2"

\* joinRoom: (role === "host" ? "Host-" : "Viewer-") + Math.floor(Math.random() * 10000)
participantNameOf(r, n) ==
    IF r = "host"
    THEN (CASE n = 1 -> "Host-1" [] n = 2 -> "Host-2")
    ELSE (CASE n = 1 -> "Viewer-1" [] n = 2 -> "Viewer-2")

ClientRoles == {"host", "viewer"}

\* app.get("/getToken") of the secure token server
appGetTokenResult(reg, roomName, participantName, n) ==
    LET room == IF Falsy(roomName) THEN "quickstart-room" ELSE roomName.s
        participant == IF Falsy(participantName) THEN RandomUser(n)
                       ELSE participantName.s
    IN BareToken(createToken(room, participant), reg)

\* GET /getToken as joinRoom requests it for a role, or with a parameter missing
appGetToken ==
    \E roomName \in RoomParams, who \in ClientRoles \cup {"none"}, n \in RandomNumbers :
        LET participantName == IF who = "none" THEN Absent
                               ELSE Str(participantNameOf(who, n))
            r == appGetTokenResult(identities, roomName, participantName, n)
        IN /\ handled < MaxRequests
           /\ identities' = r.reg
           /\ lastExchange' =
                  [endpoint |-> "appGetToken", roomName |-> roomName,
                   identity |-> participantName, cap |-> AbsentChars,
                   clientRole |-> who, status |-> r.status, shape |-> r.shape,
                   token |-> r.token, regBefore |-> identities]
           /\ handled' = handled + 1
           /\ UNCHANGED <<validReqs, via, issued, conflicts>>
           /\ UNCHANGED clientVars

\* createToken of backend/server.js: room and participant are fixed inside
serverCreateToken(n) == createToken("quickstart-room", RandomUser(n))

\* app.get("/getToken") of backend/server.js: the query is not read
serverGetTokenResult(reg, n) == BareToken(serverCreateToken(n), reg)

serverGetToken ==
    \E roomName \in RoomParams, who \in ClientRoles \cup {"none"}, n \in RandomNumbers :
        LET participantName == IF who = "none" THEN Absent
                               ELSE Str(participantNameOf(who, n))
            r == serverGetTokenResult(identities, n)
        IN /\ handled < MaxRequests
           /\ identities' = r.reg
           /\ lastExchange' =
                  [endpoint |-> "serverGetToken", roomName |-> roomName,
                   identity |-> participantName, cap |-> AbsentChars,
                   clientRole |-> who, status |-> r.status, shape |-> r.shape,
                   token |-> r.token, regBefore |-> identities]
           /\ handled' = handled + 1
           /\ UNCHANGED <<validReqs, via, issued, conflicts>>
           /\ UNCHANGED clientVars

(* ------------------------------------------------------------------ *)
(* Client: fetchTokenWithRetry inside joinRoom                         *)
(* ------------------------------------------------------------------ *)

MAX_RETRIES == 3

RETRY_DELAY_MS == 2000

JoinIds == 1..MaxJoins

\* what one fetch(url) + res.text() can come to: the fetch rejects, the
\* server answers with a status outside 200..299, or it answers 200 with a
\* body of some length
BodyLengths == {0, 5, 10, 200}

FetchOutcomes ==
    {[kind |-> "network", status |-> 0, len |-> 0]}
        \cup {[kind |-> "http", status |-> st, len |-> 0] : st \in {400, 409, 500}}
        \cup {[kind |-> "http", status |-> 200, len |-> n] : n \in BodyLengths}

\* res.ok
ResOk(o) == o.kind = "http" /\ o.status >= 200 /\ o.status <= 299

ValidResponse_NoLengthCheck(o) == ResOk(o)

\* the try block reaches "return tokenResponse": the fetch resolved, res.ok,
\* and not (!tokenResponse || tokenResponse.length < 10)
ValidResponse(o) == ResOk(o) /\ ~(o.len = 0 \/ o.len < 10)

\* errorMsg of the catch block
ErrorMessage(o) ==
    IF o.kind = "network" THEN "Network request failed"
    ELSE IF ~ResOk(o) THEN (CASE o.status = 400 -> "HTTP 400"
                              [] o.status = 409 -> "HTTP 409"
                              [] o.status = 500 -> "HTTP 500"
                              [] OTHER -> "HTTP")
    ELSE "Invalid or empty token response"

ThrownError_Generic(o) == "All retries exhausted"

\* throw error: the error caught in this attempt is the one rethrown
ThrownError(o) == ErrorMessage(o)

\* for (...; attempt <= retries; ...)
LoopContinues(attempt, retries) == attempt <= retries

ShouldRetry_Always(attempt, retries) == attempt <= retries

ShouldRetry_GiveUpEarly(attempt, retries) == attempt < retries - 1

\* if (attempt < retries)
ShouldRetry(attempt, retries) == attempt < retries

\* setTimeout(resolve, RETRY_DELAY_MS)
DelayFor(attempt) == RETRY_DELAY_MS

NoError == [set |-> FALSE, kind |-> "", text |-> ""]

NullToken == [set |-> FALSE, len |-> 0, of |-> 0]

\* before any fetch of a call has settled
NoOutcome == [kind |-> "none", status |-> 0, len |-> 0]

RenderedScreen_RoomFirst(err, screen, tok) ==
    IF screen = "room" /\ tok.set THEN "room"
    ELSE IF err.set THEN "error"
    ELSE IF screen = "browse" THEN "browse"
    ELSE IF screen = "roleSelection" THEN "roleSelection"
    ELSE "loading"

RenderedScreen_NoErrorView(err, screen, tok) ==
    IF screen = "browse" THEN "browse"
    ELSE IF screen = "roleSelection" THEN "roleSelection"
    ELSE IF screen = "room" /\ tok.set THEN "room"
    ELSE "loading"

\* what App returns: the error view first, then the view of currentScreen,
\* the room only with a token, the loading view otherwise
RenderedScreen(err, screen, tok) ==
    IF err.set THEN "error"
    ELSE IF screen = "browse" THEN "browse"
    ELSE IF screen = "roleSelection" THEN "roleSelection"
    ELSE IF screen = "room" /\ tok.set THEN "room"
    ELSE "loading"

\* the views that contain <LogDisplay />
ShowsLogDisplay(view) == view \in {"error", "room", "loading"}

\* after the step's render: a LogDisplay that mounts runs
\* LogManager.getInstance(), whose first call overrides console.log/warn/error
MountLogDisplay ==
    logInstalled' =
        (logInstalled
            \/ (mounted' /\ ShowsLogDisplay(RenderedScreen(error', currentScreen', token'))))

\* console calls of call c: they become buffer entries (addLog) only if the
\* console is intercepted when they are made; otherwise they are lost
Logged(c) == [c EXCEPT !.lost = @ \/ ~logInstalled]

\* a state setter called on an unmounted component changes nothing
SetState(old, new) == IF mounted THEN new ELSE old

IdleCall ==
    [pc |-> "idle", role |-> "null", attempt |-> 0, started |-> 0,
     okSeen |-> 0, badSeen |-> 0, delays |-> << >>, lastError |-> "",
     lastOutcome |-> NoOutcome, lost |-> FALSE]

\* the head of the loop: a fetch is issued if the loop condition holds,
\* otherwise the function falls through to "All retries exhausted"; the
\* catch block's error and errorMsg of the previous iteration are out of scope
LoopHead(c, attempt) ==
    IF LoopContinues(attempt, MAX_RETRIES)
    THEN Logged([c EXCEPT !.pc = "fetching", !.attempt = attempt, !.started = @ + 1,
                          !.lastError = "", !.lastOutcome = NoOutcome])
    ELSE [c EXCEPT !.pc = "thrown", !.attempt = attempt,
                   !.lastError = "All retries exhausted"]

\* joinRoom(roomName, role) up to its first await
joinRoom(r) ==
    /\ njoins < MaxJoins
    /\ njoins' = njoins + 1
    /\ role' = r
    /\ calls' = [calls EXCEPT ![njoins + 1] = LoopHead([IdleCall EXCEPT !.role = r], 1)]
    /\ IF calls'[njoins + 1].pc = "thrown"
       THEN error' = [set |-> TRUE, kind |-> "connection",
                      text |-> calls'[njoins + 1].lastError]
       ELSE UNCHANGED error
    /\ UNCHANGED <<token, currentScreen>>

\* the browse screen is rendered: no error, currentScreen = "browse"
handleJoinLive ==
    /\ mounted
    /\ ~error.set
    /\ currentScreen = "browse"
    /\ joinRoom("viewer")
    /\ UNCHANGED brokerVars
    /\ UNCHANGED logVars
    /\ UNCHANGED directoryVars
    /\ UNCHANGED roomVars
    /\ UNCHANGED audioVars
    /\ MountLogDisplay

handleStartNewLive ==
    /\ mounted
    /\ ~error.set
    /\ currentScreen = "browse"
    /\ currentScreen' = "roleSelection"
    /\ UNCHANGED <<token, error, role, calls, njoins>>
    /\ UNCHANGED brokerVars
    /\ UNCHANGED logVars
    /\ UNCHANGED directoryVars
    /\ UNCHANGED roomVars
    /\ UNCHANGED audioVars
    /\ MountLogDisplay

handleSelectRole ==
    /\ mounted
    /\ ~error.set
    /\ currentScreen = "roleSelection"
    /\ \E r \in ClientRoles : joinRoom(r)
    /\ UNCHANGED brokerVars
    /\ UNCHANGED logVars
    /\ UNCHANGED directoryVars
    /\ UNCHANGED roomVars
    /\ UNCHANGED audioVars
    /\ MountLogDisplay

onGoBack ==
    /\ mounted
    /\ ~error.set
    /\ currentScreen = "roleSelection"
    /\ currentScreen' = "browse"
    /\ UNCHANGED <<token, error, role, calls, njoins>>
    /\ UNCHANGED brokerVars
    /\ UNCHANGED logVars
    /\ UNCHANGED directoryVars
    /\ UNCHANGED roomVars
    /\ UNCHANGED audioVars
    /\ MountLogDisplay

\* bookkeeping of what the server sent, judged on the response alone: a
\* status in the success range and a body of at least 10 characters
UsableResponse(o) ==
    o.kind = "http" /\ o.status \in 200..299 /\ o.len >= 10

Seen(c, o) ==
    IF UsableResponse(o) THEN [c EXCEPT !.okSeen = @ + 1, !.lastOutcome = o]
    ELSE [c EXCEPT !.badSeen = @ + 1, !.lastOutcome = o]

\* the awaited fetch of call id settles with outcome o: the rest of the try
\* block or the catch block runs, and joinRoom continues if the function ends
fetchSettles(id, o) ==
    LET c == Seen(calls[id], o) IN
    /\ c.pc = "fetching"
    /\ IF ValidResponse(o)
       THEN /\ calls' = [calls EXCEPT ![id] = Logged([c EXCEPT !.pc = "returned"])]
            /\ token' = SetState(token, [set |-> TRUE, len |-> o.len, of |-> id])
            /\ currentScreen' = SetState(currentScreen, "room")
            /\ UNCHANGED error
       ELSE IF ShouldRetry(c.attempt, MAX_RETRIES)
       THEN /\ calls' = [calls EXCEPT ![id] =
                            Logged([c EXCEPT !.pc = "delay",
                                             !.lastError = ErrorMessage(o),
                                             !.delays = Append(@, DelayFor(c.attempt))])]
            /\ UNCHANGED <<token, currentScreen, error>>
       ELSE /\ calls' = [calls EXCEPT ![id] =
                            Logged([c EXCEPT !.pc = "thrown",
                                             !.lastError = ErrorMessage(o)])]
            /\ error' = SetState(error, [set |-> TRUE, kind |-> "connection",
                                         text |-> ThrownError(o)])
            /\ UNCHANGED <<token, currentScreen>>
    /\ UNCHANGED <<role, njoins>>
    /\ UNCHANGED brokerVars
    /\ UNCHANGED logVars
    /\ UNCHANGED directoryVars
    /\ UNCHANGED roomVars
    /\ UNCHANGED audioVars
    /\ MountLogDisplay

fetchCompletes == \E id \in JoinIds, o \in FetchOutcomes : fetchSettles(id, o)

\* the retry timer of call id fires: attempt++ and the loop head again
TimerPending_NeverResolved(c) == FALSE

\* new Promise((resolve) => setTimeout(resolve, RETRY_DELAY_MS)) is pending
\* and will resolve
TimerPending(c) == c.pc = "delay"

timerFiresOf(id) ==
    LET c == calls[id] IN
    /\ TimerPending(c)
    /\ calls' = [calls EXCEPT ![id] = LoopHead(c, c.attempt + 1)]
    /\ IF calls'[id].pc = "thrown"
       THEN error' = SetState(error, [set |-> TRUE, kind |-> "connection",
                                      text |-> calls'[id].lastError])
       ELSE UNCHANGED error
    /\ UNCHANGED <<token, currentScreen, role, njoins>>
    /\ UNCHANGED brokerVars
    /\ UNCHANGED logVars
    /\ UNCHANGED directoryVars
    /\ UNCHANGED roomVars
    /\ UNCHANGED audioVars
    /\ MountLogDisplay

timerFires == \E id \in JoinIds : timerFiresOf(id)

\* the close button of the room screen
closeRoom ==
    /\ mounted
    /\ ~error.set
    /\ currentScreen = "room"
    /\ token.set
    /\ token' = NullToken
    /\ role' = "null"
    /\ currentScreen' = "browse"
    /\ UNCHANGED <<error, calls, njoins>>
    /\ UNCHANGED brokerVars
    /\ UNCHANGED logVars
    /\ UNCHANGED directoryVars
    /\ UNCHANGED roomVars
    /\ UNCHANGED audioVars
    /\ MountLogDisplay

\* LiveKitRoom's onError: the transport reports a connection error while the
\* room is rendered
liveKitRoomOnError ==
    /\ mounted
    /\ RenderedScreen(error, currentScreen, token) = "room"
    /\ error' = [set |-> TRUE, kind |-> "livekit",
                 text |-> "LiveKit connection error"]
    /\ UNCHANGED <<token, currentScreen, role, calls, njoins>>
    /\ UNCHANGED brokerVars
    /\ UNCHANGED logVars
    /\ UNCHANGED directoryVars
    /\ UNCHANGED roomVars
    /\ UNCHANGED audioVars
    /\ MountLogDisplay

(* ------------------------------------------------------------------ *)
(* Client: the audio session of the App component's mount effect       *)
(* ------------------------------------------------------------------ *)

CleanupCalls_None == << >>

\* the effect's cleanup: AudioSession.stopAudioSession()
CleanupCalls == <<"stop">>

InitErrorText == "Initialization error"

\* AudioSession is a native module: it carries out the calls made to it one
\* at a time, in the order they were made (nativeQueue).
\* It carries out a pending startAudioSession: the session is held, the
\* await in init() resolves
startAudioSessionResolves ==
    /\ nativeQueue # << >> /\ Head(nativeQueue) = "start"
    /\ nativeQueue' = Tail(nativeQueue)
    /\ sessionHeld' = TRUE
    /\ audio' = "started"
    /\ UNCHANGED <<mounted, teardownIn>>
    /\ UNCHANGED <<token, error, currentScreen, role, calls, njoins>>
    /\ UNCHANGED brokerVars
    /\ UNCHANGED logVars
    /\ UNCHANGED directoryVars
    /\ UNCHANGED roomVars
    /\ MountLogDisplay

\* startAudioSession rejects: the catch block of init() sets the error
startAudioSessionRejects ==
    /\ nativeQueue # << >> /\ Head(nativeQueue) = "start"
    /\ nativeQueue' = Tail(nativeQueue)
    /\ audio' = "failed"
    /\ error' = SetState(error, [set |-> TRUE, kind |-> "initialization",
                                 text |-> InitErrorText])
    /\ UNCHANGED <<mounted, sessionHeld, teardownIn>>
    /\ UNCHANGED <<token, currentScreen, role, calls, njoins>>
    /\ UNCHANGED brokerVars
    /\ UNCHANGED logVars
    /\ UNCHANGED directoryVars
    /\ UNCHANGED roomVars
    /\ MountLogDisplay

\* AudioSession carries out a pending stopAudioSession
stopAudioSessionDone ==
    /\ nativeQueue # << >> /\ Head(nativeQueue) = "stop"
    /\ nativeQueue' = Tail(nativeQueue)
    /\ sessionHeld' = FALSE
    /\ UNCHANGED <<mounted, audio, teardownIn>>
    /\ UNCHANGED <<token, error, currentScreen, role, calls, njoins>>
    /\ UNCHANGED brokerVars
    /\ UNCHANGED logVars
    /\ UNCHANGED directoryVars
    /\ UNCHANGED roomVars
    /\ MountLogDisplay

\* the App component unmounts: the effect's cleanup runs
unmount ==
    /\ mounted
    /\ mounted' = FALSE
    /\ nativeQueue' = nativeQueue \o CleanupCalls
    /\ teardownIn' = audio
    /\ UNCHANGED <<audio, sessionHeld>>
    /\ UNCHANGED <<token, error, currentScreen, role, calls, njoins>>
    /\ UNCHANGED brokerVars
    /\ UNCHANGED logVars
    /\ UNCHANGED directoryVars
    /\ UNCHANGED roomVars
    /\ MountLogDisplay

(* ------------------------------------------------------------------ *)
(* Client: RoomView                                                    *)
(* ------------------------------------------------------------------ *)

LocalSid == "L"

RemoteSids == {"A", "B"}

Sids == {LocalSid} \cup RemoteSids

\* joinedAt?.getTime() || 0 : 0 stands for a participant without joinedAt
JoinTimes == {0, 1, 2}

\* a Participant as the effect reads it
Participant(sid, t) == [sid |-> sid, isLocal |-> (sid = LocalSid), joinedAt |-> t]

SidsOf(parts) == {parts[i].sid : i \in 1..Len(parts)}

\* participants.filter(p => !p.isLocal)
RemoteParticipants(parts) == SelectSeq(parts, LAMBDA p : ~p.isLocal)

NoHost == "null"

ViewerHost_LastRemote(parts) ==
    LET remoteParticipants == RemoteParticipants(parts)
    IN IF Len(remoteParticipants) > 0
       THEN remoteParticipants[Len(remoteParticipants)].sid
       ELSE NoHost

\* role === "viewer": remoteParticipants[0] if there is one
ViewerHost(parts) ==
    LET remoteParticipants == RemoteParticipants(parts)
    IN IF Len(remoteParticipants) > 0 THEN remoteParticipants[1].sid ELSE NoHost

\* otherwise: [...participants].sort by (joinedAt?.getTime() || 0), element 0.
\* The sort is stable: among equal keys the earlier-delivered one stays first.
SortedHost(parts) ==
    LET i == CHOOSE k \in 1..Len(parts) :
                 \A j \in 1..Len(parts) :
                     \/ parts[k].joinedAt < parts[j].joinedAt
                     \/ (parts[k].joinedAt = parts[j].joinedAt /\ k <= j)
    IN parts[i].sid

\* the host the effect finds, NoHost if none
ResolveHost(rl, parts) ==
    IF rl = "viewer" THEN ViewerHost(parts) ELSE SortedHost(parts)

\* LiveKitRoom renders RoomView with the role prop; useParticipants()
\* holds the local participant from the first render on
mountRoomView ==
    /\ viewRole = "none"
    /\ \E rl \in ClientRoles : viewRole' = rl
    /\ \E t \in JoinTimes : participants' = <<Participant(LocalSid, t)>>
    /\ effectPending' = TRUE
    /\ UNCHANGED <<previousParticipantCount, hostIdentified, hostParticipant,
                   joinNotices, lastNotice, nchanges, seenRemotes, tracks>>
    /\ UNCHANGED appVars
    /\ UNCHANGED brokerVars
    /\ UNCHANGED logVars
    /\ UNCHANGED directoryVars

\* useParticipants() delivers a new array
Delivered(parts) ==
    /\ viewRole # "none"
    /\ nchanges < MaxChanges
    /\ participants' = parts
    /\ nchanges' = nchanges + 1
    /\ effectPending' = TRUE
    /\ UNCHANGED <<viewRole, previousParticipantCount, hostIdentified,
                   hostParticipant, joinNotices, lastNotice, seenRemotes, tracks>>
    /\ UNCHANGED appVars
    /\ UNCHANGED brokerVars
    /\ UNCHANGED logVars
    /\ UNCHANGED directoryVars

\* a remote participant appears in the live set, at any place of the array
participantJoins ==
    \E sid \in Sids \ SidsOf(participants), t \in JoinTimes,
       i \in 0..Len(participants) :
        Delivered(SubSeq(participants, 1, i) \o <<Participant(sid, t)>>
                      \o SubSeq(participants, i + 1, Len(participants)))

\* a remote participant disappears from the live set
participantLeaves ==
    \E i \in 1..Len(participants) :
        /\ ~participants[i].isLocal
        /\ Delivered(SubSeq(participants, 1, i - 1)
                      \o SubSeq(participants, i + 1, Len(participants)))

\* the same participants are delivered in another order
participantsReordered ==
    \E i \in 1..(Len(participants) - 1) :
        Delivered([participants EXCEPT ![i] = participants[i + 1],
                                       ![i + 1] = participants[i]])

ShouldResolve_Always(parts, identified) == Len(parts) > 0

\* participants.length > 0 && !hostIdentified
ShouldResolve(parts, identified) == Len(parts) > 0 /\ ~identified

ShouldNotify_IgnoreRole(rl, parts, prev) ==
    LET previousRemoteCount == IF prev > 0 THEN prev - 1 ELSE 0
    IN /\ Len(parts) > prev
       /\ Len(RemoteParticipants(parts)) > previousRemoteCount

\* role === "host" && participants.length > previousParticipantCount, and
\* remoteParticipants.length > previousRemoteCount
ShouldNotify(rl, parts, prev) ==
    LET previousRemoteCount == IF prev > 0 THEN prev - 1 ELSE 0
    IN /\ rl = "host"
       /\ Len(parts) > prev
       /\ Len(RemoteParticipants(parts)) > previousRemoteCount

\* the first useEffect of RoomView, run after a render in which one of its
\* dependencies changed
roomViewEffect ==
    /\ viewRole # "none"
    /\ effectPending
    /\ LET host == IF ShouldResolve(participants, hostIdentified)
                   THEN ResolveHost(viewRole, participants) ELSE NoHost
           remoteParticipants == RemoteParticipants(participants)
           notify == ShouldNotify(viewRole, participants, previousParticipantCount)
       IN /\ hostParticipant' = IF host # NoHost THEN host ELSE hostParticipant
          /\ hostIdentified' = IF host # NoHost THEN TRUE ELSE hostIdentified
          /\ joinNotices' = IF notify THEN joinNotices + 1 ELSE joinNotices
          /\ lastNotice' = IF notify
                           THEN remoteParticipants[Len(remoteParticipants)].sid
                           ELSE lastNotice
          /\ previousParticipantCount' = Len(participants)
          /\ seenRemotes' = Len(remoteParticipants)
          /\ effectPending' = \/ hostIdentified' # hostIdentified
                              \/ previousParticipantCount' # previousParticipantCount
    /\ UNCHANGED <<viewRole, participants, nchanges, tracks>>
    /\ UNCHANGED appVars
    /\ UNCHANGED brokerVars
    /\ UNCHANGED logVars
    /\ UNCHANGED directoryVars

FilteredTracks_All(rl, host, trks) == trks

\* filteredTracks: for a viewer the tracks of hostParticipant, none while it
\* is null; all tracks otherwise
FilteredTracks(rl, host, trks) ==
    IF rl = "viewer" /\ host # NoHost
    THEN {t \in trks : t = host}
    ELSE IF rl = "viewer" THEN {} ELSE trks

\* useTracks() delivers a set with one more or one less track
tracksChange ==
    /\ viewRole # "none"
    /\ \E sid \in Sids :
           tracks' = IF sid \in tracks THEN tracks \ {sid} ELSE tracks \cup {sid}
    /\ UNCHANGED <<viewRole, participants, previousParticipantCount, hostIdentified,
                   hostParticipant, effectPending, joinNotices, lastNotice, nchanges,
                   seenRemotes>>
    /\ UNCHANGED appVars
    /\ UNCHANGED brokerVars
    /\ UNCHANGED logVars
    /\ UNCHANGED directoryVars

(* ------------------------------------------------------------------ *)
(* Room directory: GET /getActiveLives and fetchActiveLives             *)
(* ------------------------------------------------------------------ *)

DirectoryRoomNames == {"r1", "r2"}

Occupancies == {0, 2}

\* a Room as listRooms() returns it; r1 has no metadata
Room(n, k) ==
    [name |-> n, numParticipants |-> k,
     metadata |-> IF n = "r1" THEN "" ELSE "Om", creationTime |-> 17]

\* the lists listRooms() can return: rooms with distinct names, in any order
RoomLists ==
    {<< >>}
        \cup {<<Room(n, k)>> : n \in DirectoryRoomNames, k \in Occupancies}
        \cup {pair \in {<<Room(n1, k1), Room(n2, k2)>> :
                             n1 \in DirectoryRoomNames, n2 \in DirectoryRoomNames,
                             k1 \in Occupancies, k2 \in Occupancies} :
                  pair[1].name # pair[2].name}

\* new Date(room.creationTime * 1000).toISOString()
ToISOString(seconds) == <<"iso", seconds * 1000>>

\* the object rooms.map builds for one room
ActiveLive(room) ==
    [roomId |-> room.name, roomName |-> room.name,
     hostName |-> IF room.metadata = "" THEN "Unknown Host" ELSE room.metadata,
     participantCount |-> room.numParticipants,
     createdAt |-> ToISOString(room.creationTime)]

ActiveLivesOf_NonEmpty(rs) ==
    LET kept == SelectSeq(rs, LAMBDA room : room.numParticipants > 0)
    IN [i \in 1..Len(kept) |-> ActiveLive(kept[i])]

\* rooms.map(...): one object per room, in the order of rooms
ActiveLivesOf(rs) == [i \in 1..Len(rs) |-> ActiveLive(rs[i])]

LiveKeys == <<"roomId", "roomName", "hostName", "participantCount", "createdAt">>

\* res.json(activeLives): each object as its key-value pairs
JsonStringify(ls) ==
    [i \in 1..Len(ls) |-> [k \in 1..Len(LiveKeys) |-> <<LiveKeys[k], ls[i][LiveKeys[k]]>>]]

\* await res.json(): objects from the key-value pairs
JsonParse(body) ==
    LET valueOf(pairs, key) ==
            pairs[CHOOSE k \in 1..Len(pairs) : pairs[k][1] = key][2]
    IN [i \in 1..Len(body) |->
           [roomId |-> valueOf(body[i], "roomId"),
            roomName |-> valueOf(body[i], "roomName"),
            hostName |-> valueOf(body[i], "hostName"),
            participantCount |-> valueOf(body[i], "participantCount"),
            createdAt |-> valueOf(body[i], "createdAt")]]

NoQuery == [pc |-> "idle", status |-> 0, body |-> << >>]

\* the Room Service's rooms change
roomsChange ==
    /\ \E rs \in RoomLists : rs # rooms /\ rooms' = rs
    /\ nqueries < MaxQueries
    /\ UNCHANGED <<lives, loading, query, listedFrom, livesReturn, livesWarnings,
                   nqueries>>
    /\ UNCHANGED <<appVars, roomVars>>
    /\ UNCHANGED brokerVars
    /\ UNCHANGED logVars

\* loadLives up to the fetch of fetchActiveLives
loadLives ==
    /\ query.pc = "idle"
    /\ nqueries < MaxQueries
    /\ nqueries' = nqueries + 1
    /\ loading' = TRUE
    /\ query' = [pc |-> "sent", status |-> 0, body |-> << >>]
    /\ UNCHANGED <<rooms, lives, listedFrom, livesReturn, livesWarnings>>
    /\ UNCHANGED <<appVars, roomVars>>
    /\ UNCHANGED brokerVars
    /\ UNCHANGED logVars

\* app.get("/getActiveLives"): listRooms() resolves
appGetActiveLives ==
    /\ query.pc = "sent"
    /\ query' = [pc |-> "answered", status |-> 200,
                 body |-> JsonStringify(ActiveLivesOf(rooms))]
    /\ listedFrom' = rooms
    /\ UNCHANGED <<rooms, lives, loading, livesReturn, livesWarnings, nqueries>>
    /\ UNCHANGED <<appVars, roomVars>>
    /\ UNCHANGED brokerVars
    /\ UNCHANGED logVars

\* app.get("/getActiveLives"): listRooms() rejects, the catch block answers
appGetActiveLivesFails ==
    /\ query.pc = "sent"
    /\ query' = [pc |-> "answered", status |-> 500, body |-> << >>]
    /\ UNCHANGED <<rooms, lives, loading, listedFrom, livesReturn, livesWarnings,
                   nqueries>>
    /\ UNCHANGED <<appVars, roomVars>>
    /\ UNCHANGED brokerVars
    /\ UNCHANGED logVars

FetchActiveLivesResult_Rethrow(q) ==
    IF q.pc = "answered" /\ q.status >= 200 /\ q.status <= 299
    THEN [threw |-> FALSE, value |-> JsonParse(q.body), of |-> "ok", warned |-> 0]
    ELSE [threw |-> TRUE, value |-> << >>, of |-> "failed", warned |-> 1]

\* fetchActiveLives after its fetch settled: the parsed body of an ok
\* response; otherwise the catch block warns and returns []
FetchActiveLivesResult(q) ==
    IF q.pc = "answered" /\ q.status >= 200 /\ q.status <= 299
    THEN [threw |-> FALSE, value |-> JsonParse(q.body), of |-> "ok", warned |-> 0]
    ELSE [threw |-> FALSE, value |-> << >>, of |-> "failed", warned |-> 1]

\* the rest of loadLives: setLives(activeLives); setLoading(false). If
\* fetchActiveLives threw, loadLives would end at the await.
LoadLivesEnds(q) ==
    LET result == FetchActiveLivesResult(q)
    IN /\ livesReturn' = [threw |-> result.threw, value |-> result.value,
                          of |-> result.of]
       /\ livesWarnings' = livesWarnings + result.warned
       /\ lives' = IF result.threw THEN lives ELSE result.value
       /\ loading' = IF result.threw THEN loading ELSE FALSE
       /\ query' = NoQuery
       /\ UNCHANGED <<rooms, listedFrom, nqueries>>
       /\ UNCHANGED <<appVars, roomVars>>
       /\ UNCHANGED brokerVars
       /\ UNCHANGED logVars
    /\ UNCHANGED logVars

\* the response arrives
fetchActiveLivesSettles ==
    /\ query.pc = "answered"
    /\ LoadLivesEnds(query)

\* fetch rejects: no response
fetchActiveLivesNetworkError ==
    /\ query.pc = "sent"
    /\ LoadLivesEnds(query)

(* ------------------------------------------------------------------ *)
(* LogManager and its listeners                                        *)
(* ------------------------------------------------------------------ *)

\* this.logs.length > 100
LogCapacity == 100

\* the LogDisplay instances that can be mounted; each subscribes its setLogs
Listeners == {"l1", "l2"}

AddLog_DropNewest(buf, entry) ==
    LET pushed == Append(buf, entry)
    IN IF Len(pushed) > LogCapacity THEN SubSeq(pushed, 1, LogCapacity) ELSE pushed

\* addLog: this.logs.push(logEntry); if (this.logs.length > 100) this.logs.shift()
AddLog(buf, entry) ==
    LET pushed == Append(buf, entry)
    IN IF Len(pushed) > LogCapacity THEN Tail(pushed) ELSE pushed

\* what the log actions leave alone
notLogVars == <<token, error, currentScreen, role, calls, njoins, audioVars,
                roomVars, directoryVars, brokerVars>>

\* an intercepted console.log / warn / error: addLog, then notifyListeners
\* hands a copy of the buffer to every callback in this.listeners.
\* An entry is identified by its number; its text and severity are left out.
consoleCall ==
    /\ logInstalled
    /\ nlogs < MaxLogs
    /\ nlogs' = nlogs + 1
    /\ logs' = AddLog(logs, nlogs + 1)
    /\ received' = [l \in Listeners |-> IF l \in listeners THEN logs' ELSE received[l]]
    /\ UNCHANGED <<listeners, subscribed, logInstalled>>
    /\ UNCHANGED notLogVars

\* a LogDisplay mounts: LogManager.getInstance(), subscribe(setLogs),
\* setLogs(logManager.getLogs())
logDisplayMounts ==
    /\ \E l \in Listeners \ subscribed :
           /\ listeners' = listeners \cup {l}
           /\ subscribed' = subscribed \cup {l}
           /\ received' = [received EXCEPT ![l] = logs]
    /\ logInstalled' = TRUE
    /\ UNCHANGED <<logs, nlogs>>
    /\ UNCHANGED notLogVars

\* a LogDisplay unmounts: the function subscribe returned deletes its
\* callback; what the unmounted component held is gone
logDisplayUnmounts ==
    /\ \E l \in subscribed :
           /\ listeners' = listeners \ {l}
           /\ subscribed' = subscribed \ {l}
           /\ received' = [received EXCEPT ![l] = << >>]
    /\ UNCHANGED <<logs, nlogs, logInstalled>>
    /\ UNCHANGED notLogVars

(* ------------------------------------------------------------------ *)
(* Specifications                                                      *)
(* ------------------------------------------------------------------ *)

InitBroker ==
    /\ identities = {}
    /\ lastExchange = NoExchange
    /\ issued = [i \in Identities |-> 0]
    /\ validReqs = [i \in Identities |-> 0]
    /\ conflicts = [i \in Identities |-> 0]
    /\ via = [i \in Identities |-> {}]
    /\ handled = 0

InitClient ==
    /\ token = NullToken
    /\ error = NoError
    /\ currentScreen = "browse"
    /\ role = "null"
    /\ calls = [id \in JoinIds |-> IdleCall]
    /\ njoins = 0
    /\ mounted = TRUE
    /\ audio = "pending"
    /\ nativeQueue = <<"start">>
    /\ sessionHeld = FALSE
    /\ teardownIn = "none"
    /\ logInstalled = FALSE

InitRoom ==
    /\ viewRole = "none"
    /\ participants = << >>
    /\ previousParticipantCount = 0
    /\ hostIdentified = FALSE
    /\ hostParticipant = "null"
    /\ effectPending = FALSE
    /\ joinNotices = 0
    /\ lastNotice = "null"
    /\ nchanges = 0
    /\ seenRemotes = 0
    /\ tracks = {}

InitDirectory ==
    /\ rooms = << >>
    /\ lives = << >>
    /\ loading = TRUE
    /\ query = NoQuery
    /\ listedFrom = << >>
    /\ livesReturn = [threw |-> FALSE, value |-> << >>, of |-> "none"]
    /\ livesWarnings = 0
    /\ nqueries = 0

InitLog ==
    /\ logs = << >>
    /\ listeners = {}
    /\ subscribed = {}
    /\ received = [l \in Listeners |-> << >>]
    /\ nlogs = 0

Init == InitBroker /\ InitClient /\ InitRoom /\ InitDirectory /\ InitLog

NextBroker == getToken \/ postLivekitToken \/ appGetToken \/ serverGetToken

NextBrokerFault ==
    \/ getToken
    \/ postLivekitToken
    \/ appGetToken
    \/ serverGetToken
    \/ getTokenEncodeThrows
    \/ postLivekitTokenEncodeThrows

NextClient ==
    \/ handleJoinLive
    \/ handleStartNewLive
    \/ handleSelectRole
    \/ onGoBack
    \/ fetchCompletes
    \/ timerFires
    \/ closeRoom
    \/ liveKitRoomOnError

\* the broker with a Grant Encoder that does not fail per request
SpecBroker == Init /\ [][NextBroker]_vars

\* the broker when generateToken may throw
SpecBrokerFault == Init /\ [][NextBrokerFault]_vars

\* the client
SpecClient == Init /\ [][NextClient]_vars

\* the client with a few joinRoom calls
NextJoins ==
    \/ (njoins < MaxBootJoins /\ handleJoinLive)
    \/ (njoins < MaxBootJoins /\ handleSelectRole)
    \/ handleStartNewLive
    \/ onGoBack
    \/ fetchCompletes
    \/ timerFires
    \/ closeRoom
    \/ liveKitRoomOnError

\* the client when every fetch settles and every timer fires
SpecClientLive ==
    /\ Init /\ [][NextJoins]_vars
    /\ \A id \in JoinIds :
           /\ WF_vars(\E o \in FetchOutcomes : fetchSettles(id, o))
           /\ WF_vars(timerFiresOf(id))

\* the App component from mount to unmount: the joinRoom calls, the audio
\* session of the mount effect and the unmount
NextBoot ==
    \/ NextJoins
    \/ startAudioSessionResolves
    \/ startAudioSessionRejects
    \/ stopAudioSessionDone
    \/ unmount

SpecBoot == Init /\ [][NextBoot]_vars

NextRoom ==
    \/ mountRoomView
    \/ participantJoins
    \/ participantLeaves
    \/ participantsReordered
    \/ roomViewEffect

\* one RoomView and the transport's participant notifications
SpecRoom == Init /\ [][NextRoom]_vars

\* RoomView, the participant notifications and the track notifications
NextRoomTracks == NextRoom \/ tracksChange

SpecRoomTracks == Init /\ [][NextRoomTracks]_vars

NextDirectory ==
    \/ roomsChange
    \/ loadLives
    \/ appGetActiveLives
    \/ appGetActiveLivesFails
    \/ fetchActiveLivesSettles
    \/ fetchActiveLivesNetworkError

\* the room directory: the Room Service, GET /getActiveLives, fetchActiveLives
SpecDirectory == Init /\ [][NextDirectory]_vars

NextLog == consoleCall \/ logDisplayMounts \/ logDisplayUnmounts

\* LogManager, the intercepted console and the LogDisplay instances
SpecLog == Init /\ [][NextLog]_vars

Next ==
    \/ NextBrokerFault
    \/ NextClient
    \/ NextBoot
    \/ NextRoomTracks
    \/ NextDirectory
    \/ NextLog

Spec == Init /\ [][Next]_vars

(* ------------------------------------------------------------------ *)
(* Properties of the broker                                            *)
(* ------------------------------------------------------------------ *)

Controllers == {"getToken", "postLivekitToken"}

\* the capability a request asks for, read off the request itself
AsksPublisher(endpoint, cap) ==
    IF endpoint = "getToken" THEN cap = Chars(trueChars)
    ELSE cap.present /\ cap.s \in PublisherSpellings

C2_IssuedThenConflict ==
    [][/\ identities \subseteq identities'
       /\ \A i \in Identities :
              (issued[i] >= 1 /\ validReqs'[i] = validReqs[i] + 1)
                  => (lastExchange'.status = 409 /\ issued'[i] = issued[i])]_vars

C2_Witness ==
    /\ lastExchange.endpoint = "postLivekitToken"
    /\ lastExchange.identity = Str("u1")
    /\ lastExchange.roomName = Str("r1")
    /\ lastExchange.cap = Chars(publisherChars)
    /\ lastExchange.status = 409
    /\ via["u1"] = {"postLivekitToken"}
    /\ validReqs["u1"] = 2
    /\ issued["u1"] = 1

\* C3: on every GET /getToken surface and on POST /api/livekit/token, a
\* request whose roomName or identity is missing or empty is answered 400,
\* issues no credential and leaves the registry as it was.
C3_MissingFieldRejected ==
    (/\ lastExchange.endpoint # "none"
     /\ Falsy(lastExchange.roomName) \/ Falsy(lastExchange.identity))
        => /\ lastExchange.status = 400
           /\ lastExchange.token = NoToken
           /\ identities = lastExchange.regBefore

\* C4: a request whose credential encoding failed (server error) does not
\* leave its identity reserved.
C4_FailureLeavesNoReservation ==
    lastExchange.status = 500 => lastExchange.identity.s \notin identities

\* C5: run on the same registry with the same room, identity and capability,
\* getToken and postLivekitToken give the same status, the same credential
\* and the same resulting registry.
C5_ControllersAgree ==
    \A room \in RoomParams, id \in IdentityParams,
       ip \in IsPublisherParams, rl \in RoleParams :
        (AsksPublisher("getToken", ip) <=> AsksPublisher("postLivekitToken", rl))
            => LET g == getTokenResult(identities,
                            [roomName |-> room, identity |-> id, isPublisher |-> ip],
                            FALSE)
                   p == postLivekitTokenResult(identities,
                            [hasBody |-> TRUE, userId |-> id, roomName |-> room,
                             role |-> rl], FALSE)
               IN /\ g.status = p.status
                  /\ g.token = p.token
                  /\ g.reg = p.reg

C5_Witness ==
    /\ identities = {"u1"}
    /\ via["u1"] = Controllers
    /\ lastExchange.status = 409
    /\ lastExchange.regBefore = identities

\* C6: a successful getToken answers with the bare token string, a
\* successful postLivekitToken with a {token} object.
C6_ResponseShapes ==
    lastExchange.status = 200 =>
        /\ lastExchange.endpoint = "getToken" => lastExchange.shape = "text"
        /\ lastExchange.endpoint = "postLivekitToken"
               => lastExchange.shape = "json_token"

\* C7: the credential a controller issues encodes exactly the requested room
\* and identity, and publish permission iff the request asked for publisher
\* (isPublisher = 'true'; role = "publisher" in any letter case).
C7_CredentialMatchesRequest ==
    (lastExchange.endpoint \in Controllers /\ lastExchange.status = 200)
        => /\ lastExchange.token.room = lastExchange.roomName.s
           /\ lastExchange.token.identity = lastExchange.identity.s
           /\ (lastExchange.token.canPublish = "true")
                  <=> AsksPublisher(lastExchange.endpoint, lastExchange.cap)
           /\ lastExchange.token.canPublish \in {"true", "false"}

C7_Witness ==
    /\ lastExchange.endpoint = "postLivekitToken"
    /\ lastExchange.status = 200
    /\ lastExchange.cap = Chars(<<"P", "u", "b", "l", "i", "s", "h", "e", "r">>)
    /\ lastExchange.token.canPublish = "true"
    /\ lastExchange.token.identity = "u2"

\* a request made for a viewer: a controller request that does not ask for
\* publisher, or the request joinRoom makes for role "viewer"
ViewerRequest(x) ==
    IF x.endpoint \in Controllers THEN ~AsksPublisher(x.endpoint, x.cap)
    ELSE x.clientRole = "viewer"

\* C8: no credential issued for a viewer request, on any issuing path,
\* satisfies a check that requires publish permission.
C8_ViewerCannotPublish ==
    (lastExchange.status = 200 /\ ViewerRequest(lastExchange))
        => ~SatisfiesPublishCheck(lastExchange.token)

(* ------------------------------------------------------------------ *)
(* Properties of fetchTokenWithRetry                                   *)
(* ------------------------------------------------------------------ *)

\* C9: a call makes at most 3 attempts, one at a time; it returns at the
\* first usable response and attempts nothing after it; it ends in failure
\* exactly when 3 attempts have failed, without a 4th.
C9_BoundedSequentialAttempts ==
    \A id \in JoinIds :
        LET c == calls[id] IN
        /\ c.started <= 3
        /\ c.started - (c.okSeen + c.badSeen) = (IF c.pc = "fetching" THEN 1 ELSE 0)
        /\ c.okSeen <= 1
        /\ c.okSeen = 1 <=> c.pc = "returned"
        /\ c.pc = "returned" => c.started = c.badSeen + 1
        /\ c.pc = "thrown" <=> c.badSeen = 3
        /\ c.pc = "thrown" => c.started = 3

C9_Witness ==
    \E id \in JoinIds :
        /\ calls[id].pc = "returned"
        /\ calls[id].badSeen = 2
        /\ calls[id].started = 3
        /\ token.set /\ token.of = id

\* C10: one fixed 2000 ms delay follows each failed attempt that is followed
\* by another attempt, and no other delay occurs: none after a success, none
\* after the failed 3rd attempt, 2 when the fetch fails twice then succeeds.
C10_OneFixedDelayPerRetry ==
    \A id \in JoinIds :
        LET c == calls[id] IN
        /\ Len(c.delays) = c.badSeen - (IF c.pc = "thrown" THEN 1 ELSE 0)
        /\ c.pc = "fetching" => Len(c.delays) = c.started - 1
        /\ \A k \in 1..Len(c.delays) : c.delays[k] = 2000
        /\ (c.pc = "returned" /\ c.badSeen = 2) => Len(c.delays) = 2

C10_Witness ==
    \E id \in JoinIds :
        /\ calls[id].pc = "returned"
        /\ calls[id].badSeen = 2
        /\ calls[id].delays = <<2000, 2000>>

\* C11: an attempt succeeds iff the response has a status in the success
\* range and a body of at least 10 characters: a 200 with a body of 5 (or no)
\* characters is a failed attempt that is retried, a body of exactly 10
\* characters is accepted.
C11_ValidityRule ==
    \A id \in JoinIds :
        LET c == calls[id]
            o == c.lastOutcome
            usable == o.kind = "http" /\ o.status \in 200..299 /\ o.len >= 10
        IN (c.pc # "fetching" /\ o.kind # "none") =>
               /\ c.pc = "returned" <=> usable
               /\ (o.status = 200 /\ o.len \in {0, 5} /\ c.badSeen < 3) => c.pc = "delay"
               /\ (o.status = 200 /\ o.len = 10) => c.pc = "returned"

C11_Witness ==
    \E id \in JoinIds :
        /\ calls[id].pc = "delay"
        /\ calls[id].lastOutcome = [kind |-> "http", status |-> 200, len |-> 5]

\* C12: when the 3rd attempt of a call fails, the error state joinRoom sets
\* carries the error text of that 3rd attempt.
C12_LastErrorReported ==
    [][\A id \in JoinIds :
           (calls[id].pc # "thrown" /\ calls'[id].pc = "thrown")
               => /\ error'.set
                  /\ error'.kind = "connection"
                  /\ error'.text = ErrorMessage(calls'[id].lastOutcome)]_vars

C12_Witness ==
    \E id \in JoinIds :
        /\ calls[id].pc = "thrown"
        /\ calls[id].badSeen = 3
        /\ calls[id].lastOutcome.kind = "http" /\ calls[id].lastOutcome.len = 5
        /\ error.text = "Invalid or empty token response"

\* C13: a 400 or 409 answer is not retried: after it the call makes no
\* further attempt and fails at once.
C13_ClientErrorNotRetried ==
    \A id \in JoinIds :
        (calls[id].lastOutcome.status \in {400, 409} /\ calls[id].pc # "fetching")
            => calls[id].pc = "thrown"

\* C14: when every fetch settles and every timer fires, a joinRoom call that
\* is fetching or waiting for its retry timer eventually ends, either with its
\* token set and the room screen selected or with the connection error set,
\* and it never makes more than 3 attempts and 2 delays.
C14_JoinTerminates ==
    /\ [](\A id \in JoinIds : calls[id].started <= 3 /\ Len(calls[id].delays) <= 2)
    /\ \A id \in JoinIds :
           (calls[id].pc \in {"fetching", "delay"})
               ~> \/ /\ calls[id].pc = "returned"
                     /\ token.set /\ token.of = id /\ currentScreen = "room"
                  \/ /\ calls[id].pc = "thrown"
                     /\ error.set /\ error.kind = "connection"

C14_Witness ==
    \E id \in JoinIds :
        /\ calls[id].pc = "thrown"
        /\ calls[id].started = 3
        /\ Len(calls[id].delays) = 2
        /\ error.set

(* ------------------------------------------------------------------ *)
(* Properties of the mount effect and of teardown                      *)
(* ------------------------------------------------------------------ *)

\* C15: once the component has unmounted and AudioSession has carried out
\* every call made to it, the audio session is not held, whatever init() and
\* the joinRoom calls were at when the component unmounted.
C15_SessionReleased ==
    (~mounted /\ nativeQueue = << >>) => ~sessionHeld

C15_Witness ==
    /\ ~mounted /\ nativeQueue = << >> /\ ~sessionHeld
    /\ teardownIn = "pending" /\ audio = "started"
    /\ \E id \in JoinIds : calls[id].pc = "delay"

\* C16: after the component has unmounted no joinRoom call starts another
\* fetch attempt, and neither the token nor the error state is written.
C16_NothingAfterTeardown ==
    [][~mounted =>
           /\ \A id \in JoinIds : calls'[id].started = calls[id].started
           /\ token' = token
           /\ error' = error]_vars

\* C17: a joinRoom call issues its first fetch only when
\* startAudioSession has resolved.
C17_FetchAfterAudio ==
    [][\A id \in JoinIds :
           (calls[id].started = 0 /\ calls'[id].started = 1) => audio = "started"]_vars

\* C18: startAudioSession is called once and never again after it rejected;
\* when it rejects on a mounted component the error state is set to the
\* initialization error, and from then on the component never renders the
\* room.
C18_AudioFailureTerminal ==
    /\ [](Len(SelectSeq(nativeQueue, LAMBDA x : x = "start")) <= 1)
    /\ [](audio # "pending" => Len(SelectSeq(nativeQueue, LAMBDA x : x = "start")) = 0)
    /\ [][(mounted /\ audio = "pending" /\ audio' = "failed")
              => /\ error'.set /\ error'.kind = "initialization"
                 /\ error'.text = InitErrorText]_vars
    /\ []((audio = "failed" /\ teardownIn # "pending")
              => /\ error.set
                 /\ RenderedScreen(error, currentScreen, token) = "error")

C18_Witness ==
    /\ audio = "failed" /\ mounted
    /\ token.set /\ currentScreen = "room"
    /\ error.set /\ error.kind = "initialization"

\* C19: no console call of a joinRoom call (attempt, success, failure,
\* retry) is made while the console is not intercepted by LogManager.
C19_EveryAttemptLogged ==
    \A id \in JoinIds : ~calls[id].lost

(* ------------------------------------------------------------------ *)
(* Properties of RoomView                                              *)
(* ------------------------------------------------------------------ *)

\* C20: when the effect runs in viewer role with no host resolved yet, the
\* host becomes the first participant of the delivered array that is not
\* local; if the array holds no such participant the host stays unresolved,
\* and in both cases the error state is left as it was.
C20_ViewerHostFirstRemote ==
    [][(viewRole = "viewer" /\ nchanges' = nchanges /\ ~hostIdentified) =>
           /\ IF \E i \in 1..Len(participants) : ~participants[i].isLocal
              THEN LET first == CHOOSE i \in 1..Len(participants) :
                                    /\ ~participants[i].isLocal
                                    /\ \A j \in 1..(i - 1) : participants[j].isLocal
                   IN hostIdentified' /\ hostParticipant' = participants[first].sid
              ELSE ~hostIdentified' /\ hostParticipant' = "null"
           /\ error' = error /\ ~error'.set]_vars

C20_Witness ==
    /\ viewRole = "viewer"
    /\ hostIdentified /\ hostParticipant = "B"
    /\ Len(participants) = 3
    /\ participants[1].sid = "L" /\ participants[2].sid = "B"
    /\ ~effectPending

\* C21: when the effect resolves the host in host role, the host is a
\* participant no other participant joined before (a participant with a join
\* timestamp comes before one without), and every other delivery order of the
\* same participants resolves to the same host.
C21_HostEarliestJoin ==
    [][(viewRole = "host" /\ nchanges' = nchanges /\ ~hostIdentified) =>
           /\ hostIdentified'
           /\ \E i \in 1..Len(participants) :
                  /\ participants[i].sid = hostParticipant'
                  /\ \A j \in 1..Len(participants) :
                         participants[j].joinedAt # 0 =>
                             /\ participants[i].joinedAt # 0
                             /\ participants[i].joinedAt <= participants[j].joinedAt
           /\ \A f \in Permutations(1..Len(participants)) :
                  ResolveHost("host", [k \in 1..Len(participants) |-> participants[f[k]]])
                      = hostParticipant']_vars

\* C22: once hostIdentified is set, no step changes hostIdentified or
\* hostParticipant, whatever the transport delivers afterwards.
C22_HostFixedOnceResolved ==
    /\ [](hostIdentified <=> hostParticipant # "null")
    /\ [][hostIdentified =>
              (hostIdentified' /\ hostParticipant' = hostParticipant)]_vars

C22_Witness ==
    /\ viewRole = "viewer"
    /\ hostIdentified /\ hostParticipant = "A"
    /\ SidsOf(participants) = {"L", "B"}
    /\ ~effectPending

\* C23: a viewer renders only tracks of the resolved host and none while no
\* host is resolved; a host renders every track.
C23_ViewerAttachesHostOnly ==
    LET attached == FilteredTracks(viewRole, hostParticipant, tracks)
    IN /\ viewRole = "viewer" =>
              /\ \A t \in attached : hostIdentified /\ t = hostParticipant
              /\ attached \subseteq tracks
              /\ (hostIdentified /\ hostParticipant \in tracks) => attached # {}
       /\ viewRole = "host" => attached = tracks

C23_Witness ==
    /\ viewRole = "viewer"
    /\ hostIdentified /\ hostParticipant = "A"
    /\ tracks = {"L", "A", "B"}
    /\ FilteredTracks(viewRole, hostParticipant, tracks) = {"A"}

\* C24: each run of the effect calls onViewerJoined exactly once, naming the
\* last remote participant of the array, if the role is host and the array
\* holds more remote participants than the array of the previous run did;
\* otherwise it does not call it. A delivery alone calls nothing.
C24_JoinNoticePerGrowth ==
    [][/\ (viewRole # "none" /\ nchanges' = nchanges) =>
              LET remotes == {i \in 1..Len(participants) : ~participants[i].isLocal}
              IN IF viewRole = "host" /\ Cardinality(remotes) > seenRemotes
                 THEN /\ joinNotices' = joinNotices + 1
                      /\ lastNotice' = participants[CHOOSE i \in remotes :
                                                        \A j \in remotes : j <= i].sid
                 ELSE /\ joinNotices' = joinNotices
                      /\ lastNotice' = lastNotice
       /\ nchanges' # nchanges => joinNotices' = joinNotices]_vars

C24_Witness ==
    /\ viewRole = "host"
    /\ joinNotices = 2 /\ lastNotice = "B"
    /\ previousParticipantCount = 3
    /\ ~effectPending

(* ------------------------------------------------------------------ *)
(* Properties of the room directory                                    *)
(* ------------------------------------------------------------------ *)

\* C25: a fetchActiveLives call that gets the 500 answer of a failed
\* listRooms(), or no answer at all, does not throw: it returns the empty
\* list, warns once, and leaves the registry, the token, the error and the
\* role as they were; so does the server's failing handler.
C25_DirectoryFailureIsEmpty ==
    [][/\ (query.pc # "idle" /\ query'.pc = "idle"
              /\ ~(query.pc = "answered" /\ query.status = 200)) =>
              /\ ~livesReturn'.threw
              /\ livesReturn'.value = << >>
              /\ lives' = << >>
              /\ livesWarnings' = livesWarnings + 1
              /\ UNCHANGED <<identities, token, error, role>>
       /\ (query.pc = "sent" /\ query'.pc = "answered" /\ query'.status # 200) =>
              UNCHANGED <<identities, token, error, role, lives>>]_vars

C25_Witness ==
    /\ nqueries = 2
    /\ livesReturn.of = "failed" /\ ~livesReturn.threw
    /\ lives = << >>
    /\ livesWarnings = 1
    /\ Len(listedFrom) = 2
    /\ query.pc = "idle"

\* C26: a fetchActiveLives call that gets a 200 answer returns one entry per
\* room listRooms() returned, in the same order, with roomId and roomName the
\* room's name and participantCount its numParticipants.
C26_ListingMatchesRoomService ==
    [][(query.pc = "answered" /\ query.status = 200 /\ query'.pc = "idle") =>
           /\ ~livesReturn'.threw
           /\ lives' = livesReturn'.value
           /\ Len(lives') = Len(listedFrom)
           /\ \A i \in 1..Len(listedFrom) :
                  /\ lives'[i].roomId = listedFrom[i].name
                  /\ lives'[i].roomName = listedFrom[i].name
                  /\ lives'[i].participantCount = listedFrom[i].numParticipants]_vars

C26_Witness ==
    /\ livesReturn.of = "ok"
    /\ Len(lives) = 2
    /\ lives[1].roomId = "r2" /\ lives[1].participantCount = 0
    /\ lives[2].roomId = "r1" /\ lives[2].participantCount = 2
    /\ query.pc = "idle"

(* ------------------------------------------------------------------ *)
(* Properties of the App state                                         *)
(* ------------------------------------------------------------------ *)

\* C27: whenever the room is rendered, the token is the one fetched by the
\* most recent joinRoom call and the role state is the role of that call.
C27_TokenAndRoleOfLastJoin ==
    RenderedScreen(error, currentScreen, token) = "room" =>
        /\ token.of = njoins
        /\ role = calls[token.of].role

\* C28: once the error state is set no step clears it, and while it is set
\* the room is not rendered, whatever token and screen later steps set.
C28_ErrorAbsorbing ==
    /\ [][error.set => error'.set]_vars
    /\ [](error.set => RenderedScreen(error, currentScreen, token) # "room")

C28_Witness ==
    /\ mounted
    /\ error.set /\ error.kind = "initialization"
    /\ \E id \in JoinIds : calls[id].pc = "returned" /\ calls[id].started = 2
    /\ token.set /\ currentScreen = "room"

(* ------------------------------------------------------------------ *)
(* Properties of LogManager                                            *)
(* ------------------------------------------------------------------ *)

\* C29: the buffer never holds more than 100 entries and always holds the
\* most recent ones, oldest first; each addLog hands the new buffer to every
\* subscribed listener and nothing to a listener that is not subscribed.
C29_BufferKeepsMostRecent ==
    /\ [](/\ Len(logs) <= 100
          /\ Len(logs) = IF nlogs <= 100 THEN nlogs ELSE 100
          /\ \A i \in 1..Len(logs) : logs[i] = nlogs - Len(logs) + i)
    /\ [][nlogs' = nlogs + 1 =>
              \A l \in Listeners :
                  IF l \in subscribed
                  THEN received'[l] = logs' /\ received'[l][Len(logs')] = nlogs'
                  ELSE received'[l] = received[l]]_vars

C29_Witness ==
    /\ nlogs = 102
    /\ Len(logs) = 100 /\ logs[1] = 3 /\ logs[100] = 102
    /\ subscribed = {"l1"}
    /\ received["l1"] = logs /\ received["l2"] = << >>

====
